---- MODULE Spec2Model ----
(***************************************************************************)
(* ChurnPredictor (churn-risk/src/churn_predictor.py): the state cached by *)
(* the constructor and the query methods get_churn_rate, get_shap,         *)
(* get_negative_explanation, get_positive_explanation, _get_explanation.   *)
(*                                                                         *)
(* Numbers are exact rationals <<num, den>> (den > 0).  Probabilities lie  *)
(* on the grid k/PDen, contributions and numeric feature values are small  *)
(* integers.  A percentage rounded to 2 decimals is an integer number of   *)
(* hundredths (10000 is 100.00).                                           *)
(***************************************************************************)
EXTENDS Integers, Sequences, FiniteSets

VARIABLES churn_probabilities, contributions_df, test_df, model, call, ret, locals

vars == <<churn_probabilities, contributions_df, test_df, model, call, ret, locals>>

(* ---------------------------- bounds ----------------------------------- *)
NRows == 2          \* rows of the test frame
PDen == 3           \* probabilities are k/PDen, k in 0..PDen
MaxContrib == 0     \* contributions are integers in -1..MaxContrib
MaxVal == 2         \* numeric feature values are integers in 0..MaxVal
MaxLevels == 2      \* categorical levels are 1..MaxLevels (sorted labels)

(* nbins passed to partial_plot for a non-factor column *)
NumericBins == 20

(* None as a column name or a value; a row_index of None; a missing value. *)
(* Row indices are 0..NRows-1 (negative indices are not modelled), feature  *)
(* values and levels are >= 0, so the two integers below are free.          *)
None == "None"
NoneIndex == 0 - 1
NA == 0 - 1
Rows == 0 .. (NRows - 1)
RowArgs == Rows \cup {NoneIndex}

(* The test frame's feature columns, in frame order, and their H2O types. *)
FeatureColumns == <<"tenure", "plan">>
ColType == [c \in {"tenure", "plan"} |-> IF c = "tenure" THEN "int" ELSE "enum"]
ColNames == {FeatureColumns[i] : i \in 1 .. Len(FeatureColumns)}
ColArgs == ColNames \cup {None}

ProbValues == 0 .. PDen
ContribValues == (0 - 1) .. MaxContrib

(* what a call hands back: a value, or the exception it raised *)
Returned(v) == [error |-> "none", value |-> v]
Raised(e) == [error |-> e, value |-> None]

(* ---------------------------- arithmetic ------------------------------- *)
RECURSIVE SumOver(_, _)
SumOver(f, S) ==
    IF S = {} THEN 0
    ELSE LET x == CHOOSE y \in S : TRUE IN f[x] + SumOver(f, S \ {x})

(* a <= b for rationals <<num, den>> with positive denominators *)
Leq(a, b) == a[1] * b[2] <= b[1] * a[2]

(* Python round(): nearest integer to num/den, ties to the even neighbour *)
(* (RoundDown: truncation instead)                                         *)
RoundDown(num, den) == num \div den
RoundHalfEven(num, den) ==
    LET q == num \div den
        r == num % den
    IN  IF 2 * r < den THEN q
        ELSE IF 2 * r > den THEN q + 1
        ELSE IF q % 2 = 0 THEN q ELSE q + 1

(* round(x, 2) for x = num/den, in hundredths *)
Round2(num, den) == RoundHalfEven(num * 100, den)

(* numpy mean(axis=0) of the probability column (MeanAsSum: sum(axis=0)) *)
MeanAsSum(probs) == <<SumOver(probs, DOMAIN probs), PDen>>
Mean(probs) == <<SumOver(probs, DOMAIN probs), Cardinality(DOMAIN probs) * PDen>>

(* ---------------------------- get_churn_rate --------------------------- *)
Churn(probs, row_index) ==
    IF row_index # NoneIndex THEN <<probs[row_index], PDen>> ELSE Mean(probs)

ChurnRate(probs, row_index) ==
    LET churn == Churn(probs, row_index)
    IN  Round2(churn[1] * 100, churn[2])

get_churn_rate(row_index) ==
    /\ call' = [op |-> "get_churn_rate", row_index |-> row_index]
    /\ ret' = Returned(ChurnRate(churn_probabilities, row_index))
    /\ locals' = None
    /\ UNCHANGED <<churn_probabilities, contributions_df, test_df, model>>

(* ---------------------------- data frames ------------------------------ *)
(* A pandas frame: column names in order and, per row, the row's values.   *)
NCol(df) == Len(df.columns)
RowSet(df) == DOMAIN df.data

SelectSeq2(s, keep) ==
    LET F[i \in 0 .. Len(s)] ==
            IF i = 0 THEN <<>>
            ELSE IF i \in keep THEN Append(F[i - 1], s[i]) ELSE F[i - 1]
    IN  F[Len(s)]

(* drop(name): the frame without the column of that name *)
Drop(df, name) ==
    LET keep == {i \in 1 .. NCol(df) : df.columns[i] # name}
    IN  [columns |-> SelectSeq2(df.columns, keep),
         data |-> [r \in RowSet(df) |-> SelectSeq2(df.data[r], keep)]]

(* predict_contributions: one column per feature plus the BiasTerm column, *)
(* whose value is the same for every row.                                  *)
PredictContributions(vals, bias) ==
    [columns |-> Append(FeatureColumns, "BiasTerm"),
     data |-> [r \in Rows |-> Append(vals[r], bias)]]

(* ---------------------------- get_shap --------------------------------- *)
(* contributions_df.mean(axis=0) or contributions_df.iloc[row_index] *)
NpRow(df, row_index) ==
    IF row_index = NoneIndex
    THEN [i \in 1 .. NCol(df) |->
            <<SumOver([r \in RowSet(df) |-> df.data[r][i]], RowSet(df)),
              Cardinality(RowSet(df))>>]
    ELSE [i \in 1 .. NCol(df) |-> <<df.data[row_index][i], 1>>]

(* list.sort(key = e[1]) is stable: an element goes after every element    *)
(* already placed whose key is not larger (InsertDesc: reverse order).     *)
InsertDesc(s, e) ==
    LET k == Cardinality({j \in 1 .. Len(s) : Leq(e[2], s[j][2])})
    IN  SubSeq(s, 1, k) \o <<e>> \o SubSeq(s, k + 1, Len(s))
Insert(s, e) ==
    LET k == Cardinality({j \in 1 .. Len(s) : Leq(s[j][2], e[2])})
    IN  SubSeq(s, 1, k) \o <<e>> \o SubSeq(s, k + 1, Len(s))

StableSort(s) ==
    LET F[n \in 0 .. Len(s)] == IF n = 0 THEN <<>> ELSE Insert(F[n - 1], s[n])
    IN  F[Len(s)]

Shap(df, row_index) ==
    LET np_row == NpRow(df, row_index)
    IN  StableSort([i \in 1 .. NCol(df) |-> <<df.columns[i], np_row[i]>>])

(* the variant that sorts the frame's row through a view instead of a copy *)
get_shap_in_place(row_index) ==
    /\ call' = [op |-> "get_shap", row_index |-> row_index]
    /\ ret' = Returned(Shap(contributions_df, row_index))
    /\ locals' = None
    /\ contributions_df' =
           IF row_index = NoneIndex THEN contributions_df
           ELSE [contributions_df EXCEPT !.data[row_index] =
                    LET sorted == Shap(contributions_df, row_index)
                    IN  [i \in 1 .. Len(sorted) |-> sorted[i][2][1]]]
    /\ UNCHANGED <<churn_probabilities, test_df, model>>
get_shap(row_index) ==
    /\ call' = [op |-> "get_shap", row_index |-> row_index]
    /\ ret' = Returned(Shap(contributions_df, row_index))
    /\ locals' = None
    /\ UNCHANGED <<churn_probabilities, contributions_df, test_df, model>>

(* ---------------------------- idxmin / idxmax -------------------------- *)
(* DataFrame.idxmin(axis=1): per row, the name of the first column holding *)
(* the row's minimum; idxmax likewise for the maximum (IdxMinLast: the     *)
(* last such column).                                                      *)
IdxMinLast(df, r) ==
    LET row == df.data[r]
        i == CHOOSE i \in 1 .. NCol(df) :
                /\ \A j \in 1 .. NCol(df) : row[i] <= row[j]
                /\ \A j \in (i + 1) .. NCol(df) : row[j] # row[i]
    IN  df.columns[i]
IdxMin(df, r) ==
    LET row == df.data[r]
        i == CHOOSE i \in 1 .. NCol(df) :
                /\ \A j \in 1 .. NCol(df) : row[i] <= row[j]
                /\ \A j \in 1 .. (i - 1) : row[j] # row[i]
    IN  df.columns[i]

IdxMax(df, r) ==
    LET row == df.data[r]
        i == CHOOSE i \in 1 .. NCol(df) :
                /\ \A j \in 1 .. NCol(df) : row[i] >= row[j]
                /\ \A j \in 1 .. (i - 1) : row[j] # row[i]
    IN  df.columns[i]

IdxMinSeries(df) == [r \in RowSet(df) |-> IdxMin(df, r)]
IdxMaxSeries(df) == [r \in RowSet(df) |-> IdxMax(df, r)]

(* series[key]: the Series is labelled by the row labels 0..n-1; a key     *)
(* that is no label (None) raises KeyError.                                *)
SeriesGetItem(series, key) == IF key \in DOMAIN series THEN series[key] ELSE "KeyError"

(* ---------------------------- _get_explanation ------------------------- *)
(* test_df[contrib]: the column's values by row (NA is a missing value) *)
Column(df, contrib) == [r \in DOMAIN df |-> df[r][contrib]]
NaOmit(col) == {col[r] : r \in DOMAIN col} \ {NA}

SetMin(S) == CHOOSE x \in S : \A y \in S : x <= y
SetMax(S) == CHOOSE x \in S : \A y \in S : x >= y

RECURSIVE SortedSeq(_)
SortedSeq(S) == IF S = {} THEN <<>> ELSE <<SetMin(S)>> \o SortedSeq(S \ {SetMin(S)})

IsFactor(contrib) == ColType[contrib] = "enum"
NLevels(col) == Cardinality(NaOmit(col))

(* nbins = contrib_col.nlevels()[0] + 1 if contrib_col.isfactor()[0] else 20 *)
NBins(df, contrib) ==
    IF IsFactor(contrib) THEN NLevels(Column(df, contrib)) + 1 ELSE NumericBins

(* model.partial_plot(...)[0]: one row <<value, mean_response>> per value  *)
(* the trained model evaluates for the column; the response is the         *)
(* library's and is kept symbolic.                                         *)
PartialPlot(m, contrib, row_index) ==
    [i \in 1 .. Len(m[contrib]) |->
        <<m[contrib][i], <<"mean_response", contrib, m[contrib][i], row_index>>>>]

(* [min] + partial_plot.iloc[:, 0].tolist() + [max] *)
Bins(col, partial_plot) ==
    <<SetMin(NaOmit(col))>>
        \o [i \in 1 .. Len(partial_plot) |-> partial_plot[i][1]]
        \o <<SetMax(NaOmit(col))>>

(* H2OFrame.cut(bins, labels, include_lowest=True), right-closed: the      *)
(* bucket of x is the first i with x <= bins[i+1]; labels[i] = bins[i+1].  *)
(* A missing value, or one outside [bins[1], bins[last]], has no bucket.   *)
Cut(col, bins) ==
    [r \in DOMAIN col |->
        IF col[r] = NA \/ col[r] < bins[1] \/ col[r] > bins[Len(bins)] THEN NA
        ELSE SetMin({i \in 1 .. (Len(bins) - 1) : col[r] <= bins[i + 1]})]

CountOf(col, v) == Cardinality({r \in DOMAIN col : col[r] = v})

(* table() (dense): one row per value that occurs, in value order, with    *)
(* its count; .iloc[:, 1].values are the counts.                           *)
Table(col) ==
    LET present == SortedSeq(NaOmit(col))
    IN  [i \in 1 .. Len(present) |-> CountOf(col, present[i])]

(* as_data_frame().groupby(contrib).size().values: the count of every      *)
(* level that occurs, in sorted level order; missing values are dropped.   *)
GroupBySize(col) ==
    LET present == SortedSeq(NaOmit(col))
    IN  [i \in 1 .. Len(present) |-> CountOf(col, present[i])]

GroupSizes(df, contrib, partial_plot) ==
    LET col == Column(df, contrib)
    IN  IF ColType[contrib] \in {"int", "real"}
        THEN Table(Cut(col, Bins(col, partial_plot)))
        ELSE GroupBySize(col)

(* _get_size(group_size, idx), idx counted from 0 *)
GetSize(group_size, idx) ==
    IF idx > Len(group_size) - 1 THEN 0 ELSE group_size[idx + 1]

(* rows = [(pp[i,0], pp[i,1], _get_size(group_by_size, i)) for i in range(len(pp))] *)
(* (ExplanationRowsByBins: for i in range(nbins))                                   *)
ExplanationRowsByBins(partial_plot, group_by_size, nbins) ==
    [i \in 1 .. nbins |->
        IF i <= Len(partial_plot)
        THEN <<partial_plot[i][1], partial_plot[i][2], GetSize(group_by_size, i - 1)>>
        ELSE <<NA, NA, GetSize(group_by_size, i - 1)>>]
ExplanationRows(partial_plot, group_by_size, nbins) ==
    [i \in 1 .. Len(partial_plot) |->
        <<partial_plot[i][1], partial_plot[i][2], GetSize(group_by_size, i - 1)>>]

(* partial_plot.iloc[0: 0] is a frame (of no rows); iloc[0, 0] is a cell *)
ILocCell(partial_plot, a, b) ==
    IF Len(partial_plot) > 0 THEN [type |-> "float", value |-> partial_plot[1][1]]
    ELSE [type |-> "DataFrame", rows |-> <<>>]
ILocSlice(partial_plot, a, b) ==
    [type |-> "DataFrame", rows |-> SubSeq(partial_plot, a + 1, b)]

IsInstanceFloat(x) == x.type = "float"

Explanation(df, m, contrib, row_index) ==
    LET nbins == NBins(df, contrib)
        partial_plot == PartialPlot(m, contrib, row_index)
        group_by_size == GroupSizes(df, contrib, partial_plot)
    IN  [result |-> <<IsInstanceFloat(ILocSlice(partial_plot, 0, 0)), contrib,
                      ExplanationRows(partial_plot, group_by_size, nbins)>>,
         locals |-> [nbins |-> nbins, partial_plot |-> partial_plot,
                     group_by_size |-> group_by_size]]

(* ---------------------------- get_*_explanation ------------------------ *)
(* contribs = min_contrib_col or self.contributions_df.idxmin(axis=1)[row_index] *)
(* return self._get_explanation(contribs, row_index)                            *)
get_negative_explanation(row_index, min_contrib_col) ==
    LET contribs == IF min_contrib_col # None THEN min_contrib_col
                    ELSE SeriesGetItem(IdxMinSeries(contributions_df), row_index)
    IN  /\ call' = [op |-> "get_negative_explanation", row_index |-> row_index,
                    column |-> min_contrib_col]
        /\ IF contribs = "KeyError"
           THEN ret' = Raised("KeyError") /\ locals' = None
           ELSE LET e == Explanation(test_df, model, contribs, row_index)
                IN  ret' = Returned(e.result) /\ locals' = e.locals
        /\ UNCHANGED <<churn_probabilities, contributions_df, test_df, model>>

get_positive_explanation(row_index, max_contrib_col) ==
    LET contribs == IF max_contrib_col # None THEN max_contrib_col
                    ELSE SeriesGetItem(IdxMaxSeries(contributions_df), row_index)
    IN  /\ call' = [op |-> "get_positive_explanation", row_index |-> row_index,
                    column |-> max_contrib_col]
        /\ IF contribs = "KeyError"
           THEN ret' = Raised("KeyError") /\ locals' = None
           ELSE LET e == Explanation(test_df, model, contribs, row_index)
                IN  ret' = Returned(e.result) /\ locals' = e.locals
        /\ UNCHANGED <<churn_probabilities, contributions_df, test_df, model>>

(* ---------------------------- construction ----------------------------- *)
(* What the library can hand back for a column: the values it evaluates    *)
(* are distinct, ascending, lie between the column's minimum and maximum   *)
(* (numeric) or are levels of the column (factor), and are at most nbins.  *)
PlotValues(df, contrib) ==
    LET present == NaOmit(Column(df, contrib))
        grid == IF IsFactor(contrib) THEN present
                ELSE SetMin(present) .. SetMax(present)
    IN  {SortedSeq(T) : T \in {U \in SUBSET grid : Cardinality(U) <= NBins(df, contrib)}}

ColValues(contrib) == IF IsFactor(contrib) THEN 1 .. MaxLevels ELSE 0 .. MaxVal

ExampleProbabilities == [r \in Rows |-> (2 * r + 1) % (PDen + 1)]
ExampleContributions == [r \in Rows |-> <<(r % 2) - 1, 0 - (r % 2)>>]
ExampleTest == [r \in Rows |-> [tenure |-> IF r = 0 THEN 0 ELSE MaxVal, plan |-> (r % 2) + 1]]
ExampleModel == [tenure |-> <<0, MaxVal>>, plan |-> <<1, 2>>]

Constructed(probs, vals, bias, df, m) ==
    /\ churn_probabilities = probs
    /\ contributions_df = Drop(PredictContributions(vals, bias), "BiasTerm")
    /\ test_df = df
    /\ model = m
    /\ call = [op |-> "__init__"]
    /\ ret = Returned(None)
    /\ locals = None

(* any probability vector *)
InitRate ==
    \E probs \in [Rows -> ProbValues] :
        Constructed(probs, ExampleContributions, 0, ExampleTest, ExampleModel)

(* any contribution matrix *)
InitShap ==
    \E vals \in [Rows -> [1 .. Len(FeatureColumns) -> ContribValues]], bias \in ContribValues :
        Constructed(ExampleProbabilities, vals, bias, ExampleTest, ExampleModel)

(* any data in one feature column, any partial-dependence values for it *)
InitExplanation ==
    \E contrib \in ColNames :
        \E col \in [Rows -> ColValues(contrib) \cup {NA}] :
            /\ NaOmit(col) # {}
            /\ LET df == [r \in Rows |-> [ExampleTest[r] EXCEPT ![contrib] = col[r]]]
               IN  \E values \in PlotValues(df, contrib) :
                       Constructed(ExampleProbabilities, ExampleContributions, 0, df,
                                   [ExampleModel EXCEPT ![contrib] = values])

Init == InitRate \/ InitShap \/ InitExplanation

Next ==
    \/ \E row_index \in RowArgs : get_churn_rate(row_index)
    \/ \E row_index \in RowArgs : get_shap(row_index)
    \/ \E row_index \in RowArgs, column \in ColArgs : get_negative_explanation(row_index, column)
    \/ \E row_index \in RowArgs, column \in ColArgs : get_positive_explanation(row_index, column)

Spec == Init /\ [][Next]_vars

(* ======================================================================= *)
(* Properties                                                              *)
(* ======================================================================= *)
IsExplain == call.op \in {"get_negative_explanation", "get_positive_explanation"}
AutoSelect(op) == call.op = op /\ call.column = None
Last(s) == s[Len(s)]
RowOf(df, r) == df.data[r]

(* C1: get_positive_explanation(row, no forced column) selects the column  *)
(* of the last entry of get_shap(row), for every valid row, ties included. *)
C1_PositiveIsShapLast ==
    (AutoSelect("get_positive_explanation") /\ call.row_index \in Rows) =>
        /\ ret.error = "none"
        /\ ret.value[2] = Last(Shap(contributions_df, call.row_index))[1]

(* C2: get_negative_explanation(row, no forced column) selects a column    *)
(* holding the row's minimum contribution, and it is the column of the     *)
(* first entry of get_shap(row), ties included.                            *)
C2_NegativeIsMinAndShapFirst ==
    (AutoSelect("get_negative_explanation") /\ call.row_index \in Rows) =>
        /\ ret.error = "none"
        /\ \E i \in 1 .. NCol(contributions_df) :
              /\ contributions_df.columns[i] = ret.value[2]
              /\ \A j \in 1 .. NCol(contributions_df) :
                    RowOf(contributions_df, call.row_index)[i]
                        <= RowOf(contributions_df, call.row_index)[j]
        /\ ret.value[2] = Shap(contributions_df, call.row_index)[1][1]

C2_Witness ==
    /\ AutoSelect("get_negative_explanation") /\ call.row_index \in Rows
    /\ ret.error = "none"
    /\ RowOf(contributions_df, call.row_index)[1] = RowOf(contributions_df, call.row_index)[2]

(* C3: with the row index omitted and no forced column, the explanation    *)
(* methods do not raise and select the feature with the minimum (resp.     *)
(* maximum) mean contribution: the first (resp. last) entry of             *)
(* get_shap(None).                                                         *)
C3_NoneRowExplainsAverage ==
    (IsExplain /\ call.column = None /\ call.row_index = NoneIndex) =>
        /\ ret.error = "none"
        /\ ret.value[2] =
              IF call.op = "get_negative_explanation"
              THEN Shap(contributions_df, NoneIndex)[1][1]
              ELSE Last(Shap(contributions_df, NoneIndex))[1]

(* the mean of the individual results get_churn_rate(i), rounded to 2 decimals *)
MeanOfRowRates ==
    RoundHalfEven(SumOver([r \in Rows |-> ChurnRate(churn_probabilities, r)], Rows), NRows)

Abs(x) == IF x < 0 THEN 0 - x ELSE x

(* C4 (as stated): get_churn_rate(None) equals the mean of the individual  *)
(* results get_churn_rate(i) over all rows, rounded to 2 decimals.         *)
C4_EqualsMeanOfRowRates ==
    (call.op = "get_churn_rate" /\ call.row_index = NoneIndex) =>
        ret.value = MeanOfRowRates

(* C4 (amended): get_churn_rate(None) is 100 times the mean of the cached  *)
(* probabilities rounded to the nearest hundredth, and it differs from the *)
(* rounded mean of the individual results by at most 0.01.                 *)
C4_NearestToMeanWithinOneCent ==
    (call.op = "get_churn_rate" /\ call.row_index = NoneIndex) =>
        /\ 2 * Abs(ret.value * NRows * PDen
                     - 10000 * SumOver(churn_probabilities, Rows)) <= NRows * PDen
        /\ Abs(ret.value - MeanOfRowRates) <= 1

C4_Witness ==
    /\ call.op = "get_churn_rate" /\ call.row_index = NoneIndex
    /\ Abs(ret.value - MeanOfRowRates) = 1

(* C5 (as stated): the list of triples has as many entries as the bins     *)
(* requested (levels + 1 for a factor, 20 for a numeric column).           *)
C5_LengthIsBinsRequested ==
    (IsExplain /\ ret.error = "none") => Len(ret.value[3]) = locals.nbins

(* C5 (amended): the list of triples has as many entries as the            *)
(* partial-dependence result has rows, which is at most the bins           *)
(* requested; every triple whose index is past the count table has count 0.*)
C5_LengthIsPlotRows ==
    (IsExplain /\ ret.error = "none") =>
        /\ Len(ret.value[3]) = Len(locals.partial_plot)
        /\ Len(ret.value[3]) <= locals.nbins
        /\ locals.nbins = IF ColType[ret.value[2]] = "enum"
                          THEN Cardinality(NaOmit(Column(test_df, ret.value[2]))) + 1
                          ELSE 20
        /\ \A i \in 1 .. Len(ret.value[3]) :
              i > Len(locals.group_by_size) => ret.value[3][i][3] = 0

C5_Witness ==
    /\ IsExplain /\ ret.error = "none"
    /\ Len(ret.value[3]) < locals.nbins
    /\ Len(ret.value[3]) > Len(locals.group_by_size)

(* C6: get_shap(row) returns one (name, value) pair per feature column,    *)
(* each name once with that row's value (the column mean when the row is   *)
(* omitted), no BiasTerm entry, values non-decreasing.                     *)
C6_ShapOnePairPerFeatureAscending ==
    (call.op = "get_shap") =>
        LET shap == ret.value
            n == Len(FeatureColumns)
        IN  /\ Len(shap) = n
            /\ \A i \in 1 .. Len(shap) : shap[i][1] # "BiasTerm"
            /\ \A j \in 1 .. n :
                  \E i \in 1 .. Len(shap) :
                      /\ shap[i][1] = FeatureColumns[j]
                      /\ \A k \in 1 .. Len(shap) : shap[k][1] = FeatureColumns[j] => k = i
                      /\ IF call.row_index = NoneIndex
                         THEN shap[i][2][1] * NRows =
                                 shap[i][2][2] * SumOver([r \in Rows |-> contributions_df.data[r][j]], Rows)
                         ELSE shap[i][2][1] = shap[i][2][2] * contributions_df.data[call.row_index][j]
            /\ \A i \in 1 .. (Len(shap) - 1) :
                  shap[i][2][1] * shap[i + 1][2][2] <= shap[i + 1][2][1] * shap[i][2][2]

C6_Witness ==
    /\ call.op = "get_shap" /\ call.row_index \in Rows
    /\ contributions_df.data[call.row_index][1] > contributions_df.data[call.row_index][2]
    /\ ret.value[1][1] = FeatureColumns[2]

(* C7: get_churn_rate returns a value in [0, 100] for every valid row      *)
(* index, index 0 included, and for the omitted index.                     *)
C7_ChurnRateInRange ==
    (call.op = "get_churn_rate") => (ret.value >= 0 /\ ret.value <= 100 * 100)

C7_Witness ==
    /\ call.op = "get_churn_rate" /\ call.row_index = 0
    /\ ret.value = 100 * 100
    /\ ChurnRate(churn_probabilities, NoneIndex) < 100 * 100

(* the non-missing rows in the bucket whose upper breakpoint is the i-th   *)
(* partial-dependence value                                                *)
InBucket(col, plot, i) ==
    {r \in DOMAIN col :
        /\ col[r] # NA
        /\ col[r] <= plot[i][1]
        /\ (i > 1 => col[r] > plot[i - 1][1])}

(* C8: for a numeric feature the count in the i-th triple is the number of *)
(* non-missing rows in the bucket whose upper breakpoint is the i-th       *)
(* partial-dependence value.                                               *)
C8_CountIsBucketPopulation ==
    (IsExplain /\ ret.error = "none" /\ ColType[ret.value[2]] \in {"int", "real"}) =>
        \A i \in 1 .. Len(ret.value[3]) :
            ret.value[3][i][3] =
                Cardinality(InBucket(Column(test_df, ret.value[2]), locals.partial_plot, i))

(* C9: no query changes the cached probabilities or the contribution       *)
(* matrix, and what get_churn_rate or get_shap returns is its answer on    *)
(* the caches as they were before the call, whatever calls went before.    *)
C9_QueriesLeaveCachesAlone ==
    [][/\ churn_probabilities' = churn_probabilities
       /\ contributions_df' = contributions_df
       /\ call'.op = "get_churn_rate" =>
             ret'.value = ChurnRate(churn_probabilities, call'.row_index)
       /\ call'.op = "get_shap" =>
             ret'.value = Shap(contributions_df, call'.row_index)]_vars

C9_Witness ==
    /\ call.op = "get_shap" /\ call.row_index \in Rows
    /\ contributions_df.data[call.row_index][1] > contributions_df.data[call.row_index][2]
    /\ ret.value = Shap(contributions_df, call.row_index)
    /\ ret.value[1][2][1] = contributions_df.data[call.row_index][2]

(* C10: the first component of an explanation is False on every call, also *)
(* when the partial-dependence result has no rows.                         *)
C10_FlagAlwaysFalse ==
    (IsExplain /\ ret.error = "none") => ret.value[1] = FALSE

C10_Witness ==
    /\ IsExplain /\ ret.error = "none"
    /\ Len(locals.partial_plot) = 0
    /\ ret.value[3] = <<>>

====
